---------------------------- MODULE Spec2Model ----------------------------
(***************************************************************************)
(* Model of storages/backends/gdrive.py: the GDriveStorage adapter.        *)
(*                                                                         *)
(* One adapter instance is modelled: the host's settings and the keyword   *)
(* arguments of the constructor are fixed in Init, __init__ runs once, and *)
(* afterwards the storage operations are called in any order.              *)
(*                                                                         *)
(* Python values.  A str is a tuple of one-character strings; None, True   *)
(* and False are the one-element tuples <<"None">>, <<"True">>,            *)
(* <<"False">> (their element is longer than one character, so they are    *)
(* no str).  Objects handed to json.dumps carry their Python type in the   *)
(* field pytype.  An exception is named by its class; "None" is "nothing   *)
(* raised".                                                                *)
(***************************************************************************)
EXTENDS Integers, Sequences, FiniteSets, TLC

VARIABLES
    settings,               \* django settings read by setting(...)
    kwargs,                 \* keyword arguments given to GDriveStorage(**kwargs)
    types_map,              \* the host's mimetypes table (suffix -> content-type)
    pc,                     \* "new", "constructed" or "failed"
    err,                    \* class of the exception __init__ ended in, or "None"
    external,               \* collaborator calls made by __init__, in order
    client,                 \* self.client
    _support_team_drives,   \* self._support_team_drives
    _acknowledge_abuse,     \* self._acknowledge_abuse
    calls,                  \* calls on self.client made by the latest operation
    result                  \* what the latest operation returned or raised

vars == <<settings, kwargs, types_map, pc, err, external, client,
          _support_team_drives, _acknowledge_abuse, calls, result>>

(***************************************************************************)
(* Bounds                                                                  *)
(***************************************************************************)
\* number of distinct file identifiers the operations are called with
NumFileIds == 2

(***************************************************************************)
(* Python values                                                           *)
(***************************************************************************)
None == <<"None">>
True == <<"True">>
False == <<"False">>

UPPERCASE == <<"A","B","C","D","E","F","G","H","I","J","K","L","M",
               "N","O","P","Q","R","S","T","U","V","W","X","Y","Z">>
LOWERCASE == <<"a","b","c","d","e","f","g","h","i","j","k","l","m",
               "n","o","p","q","r","s","t","u","v","w","x","y","z">>

\* str.lower(), one character
LowerChar(c) ==
    IF \E i \in 1..Len(UPPERCASE) : UPPERCASE[i] = c
    THEN LOWERCASE[CHOOSE i \in 1..Len(UPPERCASE) : UPPERCASE[i] = c]
    ELSE c

\* str.lower()
lower(s) == [i \in 1..Len(s) |-> LowerChar(s[i])]

\* str.rfind(c), 1-based; 0 where Python answers -1
rfind(s, c) ==
    LET at == {i \in 1..Len(s) : s[i] = c}
    IN  IF at = {} THEN 0 ELSE CHOOSE i \in at : \A j \in at : j <= i

\* os.path.splitext(p): <<root, ext>>; a leading dot of the file name starts no
\* extension
splitext(p) ==
    LET sepIndex == rfind(p, "/")
        dotIndex == rfind(p, ".")
    IN  IF /\ dotIndex > sepIndex
           /\ \E filenameIndex \in (sepIndex + 1)..(dotIndex - 1) : p[filenameIndex] # "."
        THEN <<SubSeq(p, 1, dotIndex - 1), SubSeq(p, dotIndex, Len(p))>>
        ELSE <<p, <<>>>>

(***************************************************************************)
(* Module constants                                                        *)
(***************************************************************************)
VALID_MIME_TYPES_FOR_PKEY_FILE_DICT ==
    [PKCS12 |-> <<"a","p","p","l","i","c","a","t","i","o","n","/",
                  "x","-","p","k","c","s","1","2">>,
     JSON   |-> <<"a","p","p","l","i","c","a","t","i","o","n","/",
                  "j","s","o","n">>]

VALID_EXTENSIONS_FOR_PKEY_FILE_DICT ==
    [PKCS12 |-> <<".","p","k","c","s","1","2">>,
     JSON   |-> <<".","j","s","o","n">>]

SCOPES == <<"https://www.googleapis.com/auth/drive">>

\* dict.values()
values(d) == {d[k] : k \in DOMAIN d}

(***************************************************************************)
(* mimetypes.MimeTypes().guess_type                                        *)
(***************************************************************************)
TEXT_PLAIN == <<"t","e","x","t","/","p","l","a","i","n">>

\* suffixes that name an encoding, not a type (mimetypes.encodings_map)
encodings_map == {<<".","g","z">>}

\* The standard table, as far as the suffixes of the modelled paths go.
StandardTypesMap ==
    (<<".","p","1","2">> :> VALID_MIME_TYPES_FOR_PKEY_FILE_DICT.PKCS12) @@
    (<<".","j","s","o","n">> :> VALID_MIME_TYPES_FOR_PKEY_FILE_DICT.JSON) @@
    (<<".","t","x","t">> :> TEXT_PLAIN)

\* A host whose table knows neither key-file suffix.
SparseTypesMap == (<<".","t","x","t">> :> TEXT_PLAIN)

TypesMaps == {StandardTypesMap, SparseTypesMap}

\* guess_type(url): <<type, raised>>.  The encoding suffix is dropped first,
\* the suffix is looked up as written and then lower-cased; a url that is
\* no str raises TypeError.
guess_type(url) ==
    IF url = None THEN [type |-> None, raised |-> "TypeError"]
    ELSE LET ext0 == splitext(url)[2]
             ext  == IF ext0 \in encodings_map
                     THEN splitext(splitext(url)[1])[2] ELSE ext0
         IN  IF ext \in DOMAIN types_map
             THEN [type |-> types_map[ext], raised |-> "None"]
             ELSE IF lower(ext) \in DOMAIN types_map
             THEN [type |-> types_map[lower(ext)], raised |-> "None"]
             ELSE [type |-> None, raised |-> "None"]


(***************************************************************************)
(* The host: settings, constructor arguments, key-file paths               *)
(***************************************************************************)
\* key-file paths the host may configure
KeyPaths ==
    { <<"/","k",".","p","1","2">>,                  \* /k.p12
      <<"/","k",".","p","k","c","s","1","2">>,      \* /k.pkcs12
      <<"/","k",".","P","K","C","S","1","2">>,      \* /k.PKCS12
      <<"/","k",".","j","s","o","n">>,              \* /k.json
      <<"/","k",".","J","S","O","N">>,              \* /k.JSON
      <<"/","k",".","j","s","o","n",".","g","z">>,  \* /k.json.gz
      <<"/","k",".","t","x","t">>,                  \* /k.txt
      <<"/","d",".","j","s","o","n","/","k">>,      \* /d.json/k
      <<"/",".","j","s","o","n">> }                 \* /.json

ClientEmails == { <<"s","a","@","p">> }
Passwords == { <<"p","w">> }
DelegatedEmails == { <<"u","@","d">> }

\* f restricted to the keys whose value is given
Given(f) == [k \in {n \in DOMAIN f : f[n] # None} |-> f[k]]

SettingsSpace ==
    { Given(s) : s \in [GDRIVE_PKEY_FILE_PATH : KeyPaths \cup {None},
                        GDRIVE_CLIENT_EMAIL   : ClientEmails \cup {None},
                        GDRIVE_PKEY_PASSWORD  : Passwords \cup {None}] }

KwargsSpace ==
    { Given(k) : k \in [create_delegated   : DelegatedEmails \cup {None},
                        supportsTeamDrives : {True, False, None},
                        acknowledgeAbuse   : {True, False, None}] }

\* storages.utils.setting(name, default): the setting, or default when the
\* host does not define it
setting(name, default) ==
    IF name \in DOMAIN settings THEN settings[name] ELSE default

\* kwargs.get(name, default)
kwargs_get(name, default) ==
    IF name \in DOMAIN kwargs THEN kwargs[name] ELSE default

(***************************************************************************)
(* Collaborators of the constructor (oauth2client, httplib2, apiclient)    *)
(***************************************************************************)
NoCredentials ==
    [loader |-> "none", service_account_email |-> None, filename |-> None,
     private_key_password |-> None, scopes |-> <<>>, sub |-> None]

NoClient == [serviceName |-> "none", version |-> "none", http |-> NoCredentials]

\* the e-mail a JSON key file carries itself
EmailOfKeyfile == <<"client_email of the key file">>

\* ServiceAccountCredentials.from_p12_keyfile(email, filename, password, scopes)
from_p12_keyfile(service_account_email, filename, private_key_password, scopes, ok) ==
    [raised   |-> IF ok THEN "None" ELSE "IOError",
     external |-> << [fn |-> "from_p12_keyfile",
                      args |-> <<service_account_email, filename,
                                 private_key_password, scopes>>] >>,
     credentials |->
        IF ok
        THEN [loader |-> "from_p12_keyfile",
              service_account_email |-> service_account_email,
              filename |-> filename,
              private_key_password |-> private_key_password,
              scopes |-> scopes, sub |-> None]
        ELSE NoCredentials]

\* ServiceAccountCredentials.from_json_keyfile_name(filename, scopes)
from_json_keyfile_name(filename, scopes, ok) ==
    [raised   |-> IF ok THEN "None" ELSE "IOError",
     external |-> << [fn |-> "from_json_keyfile_name",
                      args |-> <<filename, scopes>>] >>,
     credentials |->
        IF ok
        THEN [loader |-> "from_json_keyfile_name",
              service_account_email |-> EmailOfKeyfile,
              filename |-> filename,
              private_key_password |-> None,
              scopes |-> scopes, sub |-> None]
        ELSE NoCredentials]

\* credentials.create_delegated(sub)
create_delegated(credentials, sub) == [credentials EXCEPT !.sub = sub]

\* the same, handing back a transport that no credentials are bound to
authorize_bare(credentials) == NoCredentials

\* credentials.authorize(httplib2.Http()): the transport, bound to the credentials
authorize(credentials) == credentials

\* discovery.build(serviceName, version, http=http)
build(serviceName, version, http) ==
    [serviceName |-> serviceName, version |-> version, http |-> http]

(***************************************************************************)
(* GDriveStorage._build_credentials_object                                 *)
(***************************************************************************)
\* the same, with the key file loaded before its encoding is validated
_build_credentials_object_load_first(pkey_file_path, client_email, private_key_password, keyfile_ok) ==
    LET guessed == guess_type(pkey_file_path)
    IN  IF guessed.raised # "None"
        THEN [raised |-> guessed.raised, external |-> <<>>,
              credentials |-> NoCredentials]
        ELSE
        LET guess == guessed.type
            file_extension == splitext(pkey_file_path)[2]
            by_extension ==
                \/ guess = None
                \/ lower(guess) \notin values(VALID_MIME_TYPES_FOR_PKEY_FILE_DICT)
            mimetype ==
                IF ~by_extension THEN guess
                ELSE IF lower(file_extension) = VALID_EXTENSIONS_FOR_PKEY_FILE_DICT.PKCS12
                THEN VALID_MIME_TYPES_FOR_PKEY_FILE_DICT.PKCS12
                ELSE VALID_MIME_TYPES_FOR_PKEY_FILE_DICT.JSON
            loaded ==
                IF mimetype = VALID_MIME_TYPES_FOR_PKEY_FILE_DICT.PKCS12
                THEN from_p12_keyfile(client_email, pkey_file_path,
                                      private_key_password, SCOPES, keyfile_ok)
                ELSE from_json_keyfile_name(pkey_file_path, SCOPES, keyfile_ok)
        IN  IF /\ loaded.raised = "None"
               /\ by_extension
               /\ lower(file_extension) \notin values(VALID_EXTENSIONS_FOR_PKEY_FILE_DICT)
            THEN [raised |-> "ImproperlyConfigured", external |-> loaded.external,
                  credentials |-> NoCredentials]
            ELSE loaded

\* the same, with the extension compared as written when choosing the loader
_build_credentials_object_case(pkey_file_path, client_email, private_key_password, keyfile_ok) ==
    LET guessed == guess_type(pkey_file_path)
    IN  IF guessed.raised # "None"
        THEN [raised |-> guessed.raised, external |-> <<>>,
              credentials |-> NoCredentials]
        ELSE
        LET guess == guessed.type
            file_extension == splitext(pkey_file_path)[2]
            by_extension ==
                \/ guess = None
                \/ lower(guess) \notin values(VALID_MIME_TYPES_FOR_PKEY_FILE_DICT)
        IN  IF /\ by_extension
               /\ lower(file_extension) \notin values(VALID_EXTENSIONS_FOR_PKEY_FILE_DICT)
            THEN [raised |-> "ImproperlyConfigured", external |-> <<>>,
                  credentials |-> NoCredentials]
            ELSE
            LET mimetype ==
                    IF ~by_extension THEN guess
                    ELSE IF file_extension = VALID_EXTENSIONS_FOR_PKEY_FILE_DICT.PKCS12
                    THEN VALID_MIME_TYPES_FOR_PKEY_FILE_DICT.PKCS12
                    ELSE VALID_MIME_TYPES_FOR_PKEY_FILE_DICT.JSON
            IN  IF mimetype = VALID_MIME_TYPES_FOR_PKEY_FILE_DICT.PKCS12
                THEN from_p12_keyfile(client_email, pkey_file_path,
                                      private_key_password, SCOPES, keyfile_ok)
                ELSE from_json_keyfile_name(pkey_file_path, SCOPES, keyfile_ok)

\* _build_credentials_object(pkey_file_path, client_email, private_key_password):
\* [raised, external, credentials].  keyfile_ok: the loader can read the key
\* file at that path.
_build_credentials_object(pkey_file_path, client_email, private_key_password, keyfile_ok) ==
    LET guessed == guess_type(pkey_file_path)                        \* line 72
    IN  IF guessed.raised # "None"
        THEN [raised |-> guessed.raised, external |-> <<>>,
              credentials |-> NoCredentials]
        ELSE
        LET guess == guessed.type
            file_extension == splitext(pkey_file_path)[2]            \* line 76
            \* line 75: not mimetype or mimetype.lower() not in the valid types
            by_extension ==
                \/ guess = None
                \/ lower(guess) \notin values(VALID_MIME_TYPES_FOR_PKEY_FILE_DICT)
        IN  IF /\ by_extension                                       \* line 78
               /\ lower(file_extension) \notin values(VALID_EXTENSIONS_FOR_PKEY_FILE_DICT)
            THEN [raised |-> "ImproperlyConfigured", external |-> <<>>,
                  credentials |-> NoCredentials]
            ELSE
            LET mimetype ==
                    IF ~by_extension THEN guess
                    ELSE IF lower(file_extension) = VALID_EXTENSIONS_FOR_PKEY_FILE_DICT.PKCS12
                    THEN VALID_MIME_TYPES_FOR_PKEY_FILE_DICT.PKCS12  \* line 82
                    ELSE VALID_MIME_TYPES_FOR_PKEY_FILE_DICT.JSON    \* line 85
            IN  IF mimetype = VALID_MIME_TYPES_FOR_PKEY_FILE_DICT.PKCS12  \* line 88
                THEN from_p12_keyfile(client_email, pkey_file_path,
                                      private_key_password, SCOPES, keyfile_ok)
                ELSE from_json_keyfile_name(pkey_file_path, SCOPES, keyfile_ok)

(***************************************************************************)
(* Initial state and GDriveStorage.__init__                                *)
(***************************************************************************)
\* an attribute the object does not have yet
Unset == <<"unset">>

NoResult == [op |-> "none", name |-> None, raised |-> "None", value |-> None]

Return(op, name, value) ==
    [op |-> op, name |-> name, raised |-> "None", value |-> value]

Raise(op, name, exception) ==
    [op |-> op, name |-> name, raised |-> exception, value |-> None]

Init ==
    /\ settings \in SettingsSpace
    /\ kwargs \in KwargsSpace
    /\ types_map \in TypesMaps
    /\ pc = "new"
    /\ err = "None"
    /\ external = <<>>
    /\ client = NoClient
    /\ _support_team_drives = Unset
    /\ _acknowledge_abuse = Unset
    /\ calls = <<>>
    /\ result = NoResult

\* __init__ ends in an exception: no object is handed to the caller
InitRaises(exception, made) ==
    /\ pc' = "failed"
    /\ err' = exception
    /\ external' = made
    /\ UNCHANGED <<client, _support_team_drives, _acknowledge_abuse>>

\* GDriveStorage(**kwargs).  keyfile_ok, authorize_ok, build_ok: whether the
\* key-file loader, the authorisation of the transport and the discovery of
\* the remote API return normally.
__init__ ==
    /\ pc = "new"
    /\ \E keyfile_ok \in BOOLEAN, authorize_ok \in BOOLEAN, build_ok \in BOOLEAN :
         LET pkey_file_path == setting("GDRIVE_PKEY_FILE_PATH", None)
             client_email == setting("GDRIVE_CLIENT_EMAIL", None)
             private_key_password == setting("GDRIVE_PKEY_PASSWORD", None)
             delegated_email == kwargs_get("create_delegated", None)
             support_team_drives == kwargs_get("supportsTeamDrives", None)
             acknowledge_abuse == kwargs_get("acknowledgeAbuse", None)
             built == _build_credentials_object(pkey_file_path, client_email,
                                                private_key_password, keyfile_ok)
             credentials ==
                 IF delegated_email # None
                 THEN create_delegated(built.credentials, delegated_email)
                 ELSE built.credentials
             delegation ==
                 IF delegated_email # None
                 THEN << [fn |-> "create_delegated", args |-> <<delegated_email>>] >>
                 ELSE <<>>
             http == authorize(credentials)
             authorizing == << [fn |-> "authorize", args |-> <<credentials>>] >>
             building == << [fn |-> "build", args |-> <<"drive", "v3", http>>] >>
         IN  IF built.raised # "None"
             THEN InitRaises(built.raised, built.external)
             ELSE IF ~authorize_ok
             THEN InitRaises("HttpAccessTokenRefreshError",
                             built.external \o delegation \o authorizing)
             ELSE IF ~build_ok
             THEN InitRaises("HttpError",
                             built.external \o delegation \o authorizing \o building)
             ELSE /\ pc' = "constructed"
                  /\ err' = "None"
                  /\ external' = built.external \o delegation \o authorizing \o building
                  /\ client' = build("drive", "v3", http)
                  /\ _support_team_drives' = support_team_drives
                  /\ _acknowledge_abuse' = acknowledge_abuse
    /\ UNCHANGED <<settings, kwargs, types_map, calls, result>>

(***************************************************************************)
(* The remote API as the operations see it: self.client.files()            *)
(***************************************************************************)
Digits == <<"1","2","3","4","5","6","7","8","9">>

\* the file identifiers the operations are called with
FileIds == { <<"f", Digits[i]>> : i \in 1..NumFileIds }

FIELD_SIZE == <<"s","i","z","e">>
FIELD_MODIFIED_TIME == <<"m","o","d","i","f","i","e","d","T","i","m","e">>
FIELD_VIEWED_BY_ME_TIME == <<"v","i","e","w","e","d","B","y","M","e","T","i","m","e">>
FIELD_WEB_CONTENT_LINK == <<"w","e","b","C","o","n","t","e","n","t","L","i","n","k">>

FieldNames == {FIELD_SIZE, FIELD_MODIFIED_TIME, FIELD_VIEWED_BY_ME_TIME,
               FIELD_WEB_CONTENT_LINK}

\* the value the remote service holds for a field
FieldValue(field) ==
    IF field = FIELD_SIZE THEN <<"1","0">>
    ELSE IF field = FIELD_WEB_CONTENT_LINK THEN <<"h",":","/","/","x">>
    ELSE <<"2","0","1","7","-","0","1","-","0","1">>

\* a dict, its items in insertion order
Dict(items) == [pytype |-> "dict", items |-> items]

\* what files().get / files().delete may hand back: a mapping holding one
\* field or none, or the request object of the client library
Responses ==
    { Dict(<<>>) } \cup
    { Dict(<< <<f, FieldValue(f)>> >>) : f \in FieldNames } \cup
    { [pytype |-> "HttpRequest", items |-> <<>>] }

NoResponse == [pytype |-> "NoneType", items |-> <<>>]

\* how one call on self.client.files() ends: it returns a response, or it
\* raises HttpError (with the status of the remote answer) or an error of
\* the transport or of the token refresh
Outcomes ==
    { [raised |-> "None", status |-> 0, returned |-> r] : r \in Responses } \cup
    { [raised |-> "HttpError", status |-> st, returned |-> NoResponse]
        : st \in {401, 404} } \cup
    { [raised |-> e, status |-> 0, returned |-> NoResponse]
        : e \in {"ServerNotFoundError", "HttpAccessTokenRefreshError"} }

\* one call on self.client.files(), as recorded in calls
Call(method, keywords, outcome) ==
    [method |-> method, keywords |-> keywords, raised |-> outcome.raised,
     status |-> outcome.status, returned |-> outcome.returned]

(***************************************************************************)
(* json.dumps and the lookup made on its result                            *)
(***************************************************************************)
Quoted(s) == <<"\"">> \o s \o <<"\"">>

RECURSIVE json_items(_)
\* the members of a JSON object, in the order of the dict
json_items(items) ==
    IF items = <<>> THEN <<>>
    ELSE Quoted(Head(items)[1]) \o <<":", " ">> \o Quoted(Head(items)[2])
         \o (IF Len(items) > 1 THEN <<",", " ">> \o json_items(Tail(items))
             ELSE <<>>)

\* json.dumps(obj): the JSON text of a dict, a str; TypeError for an object
\* that is not serialisable
json_dumps(obj) ==
    IF obj.pytype = "dict"
    THEN [raised |-> "None",
          value  |-> [pytype |-> "str",
                      items  |-> <<"{">> \o json_items(obj.items) \o <<"}">>]]
    ELSE [raised |-> "TypeError", value |-> NoResponse]

\* obj.get(key, default): the lookup of a dict; any other object has no
\* attribute get
get(obj, key, default) ==
    IF obj.pytype # "dict"
    THEN [raised |-> "AttributeError", value |-> None]
    ELSE [raised |-> "None",
          value  |-> IF \E i \in 1..Len(obj.items) : obj.items[i][1] = key
                     THEN obj.items[CHOOSE i \in 1..Len(obj.items) :
                                        obj.items[i][1] = key][2]
                     ELSE default]

(***************************************************************************)
(* The operations                                                          *)
(*                                                                         *)
(* The adapter is used synchronously, one call at a time: an operation     *)
(* starts when the previous one has returned to its caller.                *)
(***************************************************************************)
\* what no operation assigns
Frame == <<settings, kwargs, types_map, pc, err, external>>

\* the attributes of the adapter
Adapter == <<client, _support_team_drives, _acknowledge_abuse>>

\* an adapter exists and no call on it is under way
Callable == pc = "constructed" /\ result = NoResult

\* the same, sending the default of the flag, not the stored one
delete_calls_default_flag(name, outcome) ==
    << Call("delete", [fileId |-> name, supportTeamDrives |-> None], outcome) >>

\* line 136: the calls delete makes on self.client.files()
delete_calls(name, outcome) ==
    << Call("delete",
            [fileId |-> name, supportTeamDrives |-> _support_team_drives],
            outcome) >>

\* the same, dropping the stored flag once the call is made
delete_forgets_flag(name) ==
    /\ Callable
    /\ \E outcome \in Outcomes :
         /\ calls' = delete_calls(name, outcome)
         /\ result' = IF outcome.raised # "None"
                      THEN Raise("delete", name, outcome.raised)
                      ELSE Return("delete", name, None)
    /\ _support_team_drives' = None
    /\ UNCHANGED <<Frame, client, _acknowledge_abuse>>

\* delete(name): nothing is caught, nothing is returned
delete(name) ==
    /\ Callable
    /\ \E outcome \in Outcomes :
         /\ calls' = delete_calls(name, outcome)
         /\ result' = IF outcome.raised # "None"
                      THEN Raise("delete", name, outcome.raised)
                      ELSE Return("delete", name, None)
    /\ UNCHANGED <<Frame, Adapter>>

\* the same, sending the other flag
exists_keywords_other_flag(name) ==
    [fileId |-> name, acknowledgeAbuse |-> _support_team_drives]

\* line 140: the keywords of the call exists makes
exists_keywords(name) ==
    [fileId |-> name, acknowledgeAbuse |-> _acknowledge_abuse]

\* the same, answering True from the except branch
exists_result_inverted(name, outcome) ==
    IF outcome.raised = "HttpError" THEN Return("exists", name, True)
    ELSE IF outcome.raised # "None" THEN Raise("exists", name, outcome.raised)
    ELSE Return("exists", name, True)

\* the same, with a bare except
exists_result_catch_all(name, outcome) ==
    IF outcome.raised # "None" THEN Return("exists", name, False)
    ELSE Return("exists", name, True)

\* lines 139-144: try / except HttpError / else
exists_result(name, outcome) ==
    IF outcome.raised = "HttpError" THEN Return("exists", name, False)
    ELSE IF outcome.raised # "None" THEN Raise("exists", name, outcome.raised)
    ELSE Return("exists", name, True)

\* exists(name)
exists(name) ==
    /\ Callable
    /\ \E outcome \in Outcomes :
         /\ calls' = << Call("get", exists_keywords(name), outcome) >>
         /\ result' = exists_result(name, outcome)
    /\ UNCHANGED <<Frame, Adapter>>

\* listdir(path): two empty lists
listdir(path) ==
    /\ Callable
    /\ calls' = <<>>
    /\ result' = Return("listdir", path, << <<>>, <<>> >>)
    /\ UNCHANGED <<Frame, Adapter>>

\* the keywords of the call a metadata getter makes
metadata_keywords(name, field) ==
    [fileId |-> name, acknowledgeAbuse |-> _acknowledge_abuse, fields |-> field]

\* the body the four metadata getters share, after the call: json.dumps of
\* the response, then .get of the field on what json.dumps returned
metadata_result(op, name, field, outcome) ==
    LET response == outcome.returned
        gdrive_file_metadata == json_dumps(response)
        got == get(gdrive_file_metadata.value, field, None)
    IN  IF outcome.raised # "None"
        THEN Raise(op, name, outcome.raised)
        ELSE IF gdrive_file_metadata.raised # "None"
        THEN Raise(op, name, gdrive_file_metadata.raised)
        ELSE IF got.raised # "None"
        THEN Raise(op, name, got.raised)
        ELSE Return(op, name, got.value)

\* size(name)
size(name) ==
    /\ Callable
    /\ \E outcome \in Outcomes :
         /\ calls' = << Call("get", metadata_keywords(name, FIELD_SIZE), outcome) >>
         /\ result' = metadata_result("size", name, FIELD_SIZE, outcome)
    /\ UNCHANGED <<Frame, Adapter>>

\* modified_time(name)
modified_time(name) ==
    /\ Callable
    /\ \E outcome \in Outcomes :
         /\ calls' = << Call("get", metadata_keywords(name, FIELD_MODIFIED_TIME),
                             outcome) >>
         /\ result' = metadata_result("modified_time", name, FIELD_MODIFIED_TIME,
                                      outcome)
    /\ UNCHANGED <<Frame, Adapter>>

\* accessed_time(name)
accessed_time(name) ==
    /\ Callable
    /\ \E outcome \in Outcomes :
         /\ calls' = << Call("get", metadata_keywords(name, FIELD_VIEWED_BY_ME_TIME),
                             outcome) >>
         /\ result' = metadata_result("accessed_time", name,
                                      FIELD_VIEWED_BY_ME_TIME, outcome)
    /\ UNCHANGED <<Frame, Adapter>>

\* url(name)
url(name) ==
    /\ Callable
    /\ \E outcome \in Outcomes :
         /\ calls' = << Call("get", metadata_keywords(name, FIELD_WEB_CONTENT_LINK),
                             outcome) >>
         /\ result' = metadata_result("url", name, FIELD_WEB_CONTENT_LINK, outcome)
    /\ UNCHANGED <<Frame, Adapter>>

\* _open(name, mode): pass
_open(name) ==
    /\ Callable
    /\ calls' = <<>>
    /\ result' = Return("_open", name, None)
    /\ UNCHANGED <<Frame, Adapter>>

\* _save(name, content): pass
_save(name) ==
    /\ Callable
    /\ calls' = <<>>
    /\ result' = Return("_save", name, None)
    /\ UNCHANGED <<Frame, Adapter>>

\* _chunked_upload(content, dest_path): pass
_chunked_upload(dest_path) ==
    /\ Callable
    /\ calls' = <<>>
    /\ result' = Return("_chunked_upload", dest_path, None)
    /\ UNCHANGED <<Frame, Adapter>>

\* the operation has returned (or raised) to the host application
Returned ==
    /\ pc = "constructed"
    /\ result # NoResult
    /\ calls' = <<>>
    /\ result' = NoResult
    /\ UNCHANGED <<Frame, Adapter>>

Next ==
    \/ __init__
    \/ \E name \in FileIds : delete(name)
    \/ \E name \in FileIds : exists(name)
    \/ \E name \in FileIds : listdir(name)
    \/ \E name \in FileIds : size(name)
    \/ \E name \in FileIds : modified_time(name)
    \/ \E name \in FileIds : accessed_time(name)
    \/ \E name \in FileIds : url(name)
    \/ \E name \in FileIds : _open(name)
    \/ \E name \in FileIds : _save(name)
    \/ \E name \in FileIds : _chunked_upload(name)
    \/ Returned

Spec == Init /\ [][Next]_vars

(***************************************************************************)
(* Vocabulary of the properties                                            *)
(***************************************************************************)
KeyPath == setting("GDRIVE_PKEY_FILE_PATH", None)

ClientEmail == setting("GDRIVE_CLIENT_EMAIL", None)

\* the constructor has run
Tried == pc # "new"

\* the encoding the key file's content-type names, "none" when inconclusive
ByContentType ==
    LET type == guess_type(KeyPath).type
    IN  IF type = None THEN "none"
        ELSE IF lower(type) = VALID_MIME_TYPES_FOR_PKEY_FILE_DICT.PKCS12 THEN "PKCS12"
        ELSE IF lower(type) = VALID_MIME_TYPES_FOR_PKEY_FILE_DICT.JSON THEN "JSON"
        ELSE "none"

\* the encoding the key file's extension names, "none" when it names none
ByExtension ==
    LET ext == lower(splitext(KeyPath)[2])
    IN  IF ext = VALID_EXTENSIONS_FOR_PKEY_FILE_DICT.PKCS12 THEN "PKCS12"
        ELSE IF ext = VALID_EXTENSIONS_FOR_PKEY_FILE_DICT.JSON THEN "JSON"
        ELSE "none"

\* content-type first, extension only when the content-type is inconclusive
Identified == IF ByContentType # "none" THEN ByContentType ELSE ByExtension

LoaderOf(encoding) ==
    IF encoding = "PKCS12" THEN "from_p12_keyfile" ELSE "from_json_keyfile_name"

\* exceptions that come out of a collaborator, not out of the adapter's code
CollaboratorErrors == {"IOError", "HttpAccessTokenRefreshError", "HttpError"}

MetadataField(op) ==
    IF op = "size" THEN FIELD_SIZE
    ELSE IF op = "modified_time" THEN FIELD_MODIFIED_TIME
    ELSE IF op = "accessed_time" THEN FIELD_VIEWED_BY_ME_TIME
    ELSE FIELD_WEB_CONTENT_LINK

MetadataGetters == {"size", "modified_time", "accessed_time", "url"}

\* the flags as given to the constructor
ConfiguredSharedDrives == kwargs_get("supportsTeamDrives", None)

ConfiguredAcknowledgeAbuse == kwargs_get("acknowledgeAbuse", None)

(***************************************************************************)
(* Properties                                                              *)
(***************************************************************************)
\* C1: whenever the key path or the service-account e-mail is absent, the
\* constructor ends in ImproperlyConfigured.
C1_MissingSettingRaisesImproperlyConfigured ==
    (Tried /\ (KeyPath = None \/ ClientEmail = None))
        => (pc = "failed" /\ err = "ImproperlyConfigured")

C4_ConfigurationFailureBeforeAnyCall ==
    (pc = "failed" /\ err \in {"ImproperlyConfigured", "TypeError"})
        => external = <<>>

C4_Witness ==
    /\ pc = "failed"
    /\ err = "ImproperlyConfigured"
    /\ KeyPath # None
    /\ external = <<>>

\* C5: exists returns False when its metadata fetch raises HttpError and True
\* when the fetch returns, whatever the response holds.
C5_ExistsFalseOnHttpErrorTrueOnReturn ==
    result.op = "exists"
        => /\ Len(calls) = 1
           /\ calls[1].keywords.fileId = result.name
           /\ calls[1].raised = "HttpError"
                => (result.raised = "None" /\ result.value = False)
           /\ calls[1].raised = "None"
                => (result.raised = "None" /\ result.value = True)

C5_Witness ==
    /\ result.op = "exists"
    /\ calls[1].raised = "HttpError"
    /\ result.raised = "None"
    /\ result.value = False

\* C6: a metadata getter whose fetch returns a mapping ends in no error and
\* returns the value of its field when the mapping holds it, None when not.
C6_GetterReturnsFieldOrNone ==
    (/\ result.op \in MetadataGetters
     /\ calls[1].raised = "None"
     /\ calls[1].returned.pytype = "dict")
        => /\ result.raised = "None"
           /\ result.value = get(calls[1].returned, MetadataField(result.op), None).value

\* C7: delete(id) makes exactly one call, files().delete for that id, and the
\* call carries the shared-drive flag with the value given to the constructor.
C7_DeleteIssuesOneFlaggedCall ==
    result.op = "delete"
        => /\ Len(calls) = 1
           /\ calls[1].method = "delete"
           /\ calls[1].keywords.fileId = result.name
           /\ "supportTeamDrives" \in DOMAIN calls[1].keywords
           /\ calls[1].keywords.supportTeamDrives = ConfiguredSharedDrives

C7_Witness ==
    /\ result.op = "delete"
    /\ ConfiguredSharedDrives = True
    /\ Len(calls) = 1
    /\ calls[1].keywords.supportTeamDrives = True

\* C8 as stated: every call made by an operation carries both flags with the
\* values given to the constructor.
C8_EveryCallCarriesBothFlags ==
    \A i \in 1..Len(calls) :
        /\ "supportTeamDrives" \in DOMAIN calls[i].keywords
        /\ calls[i].keywords.supportTeamDrives = ConfiguredSharedDrives
        /\ "acknowledgeAbuse" \in DOMAIN calls[i].keywords
        /\ calls[i].keywords.acknowledgeAbuse = ConfiguredAcknowledgeAbuse

\* C8 amended: every call made by an operation carries one flag with the
\* value given to the constructor: the deletion call the shared-drive flag
\* and not the abuse acknowledgment, every metadata fetch (exists, size,
\* modified_time, accessed_time, url) the abuse acknowledgment and not the
\* shared-drive flag.
C8_EachCallCarriesItsFlag ==
    \A i \in 1..Len(calls) :
        /\ calls[i].method = "delete"
             => /\ DOMAIN calls[i].keywords = {"fileId", "supportTeamDrives"}
                /\ calls[i].keywords.supportTeamDrives = ConfiguredSharedDrives
        /\ calls[i].method = "get"
             => /\ DOMAIN calls[i].keywords \in {{"fileId", "acknowledgeAbuse"},
                                                 {"fileId", "acknowledgeAbuse", "fields"}}
                /\ calls[i].keywords.acknowledgeAbuse = ConfiguredAcknowledgeAbuse

C8_Witness ==
    /\ result.op = "exists"
    /\ ConfiguredSharedDrives = True
    /\ ConfiguredAcknowledgeAbuse = False
    /\ Len(calls) = 1
    /\ calls[1].keywords.acknowledgeAbuse = False

\* C9 as stated: whenever the metadata fetch of exists fails, for whatever
\* reason, exists returns False and ends in no error.
C9_ExistsFalseOnAnyFailure ==
    (result.op = "exists" /\ calls[1].raised # "None")
        => (result.raised = "None" /\ result.value = False)

\* C9 amended: exists returns False for every HttpError, whatever the status
\* of the remote answer (an authentication failure answered 401 reads like a
\* missing file answered 404); a failure of any other class (transport,
\* token refresh) is not caught: exists ends in that error.
C9_ExistsFalseOnHttpErrorOnly ==
    result.op = "exists"
        => /\ calls[1].raised = "HttpError"
                => (result.raised = "None" /\ result.value = False)
           /\ calls[1].raised \notin {"None", "HttpError"}
                => (result.raised = calls[1].raised /\ result.value = None)

C9_Witness ==
    /\ result.op = "exists"
    /\ calls[1].raised = "HttpAccessTokenRefreshError"
    /\ result.raised = "HttpAccessTokenRefreshError"

\* C10: once constructed, no step changes the adapter: client and both flags
\* stay what they were, also across operations that end in an error.
C10_AdapterNeverChanges ==
    [][pc = "constructed"
         => /\ pc' = "constructed"
            /\ client' = client
            /\ _support_team_drives' = _support_team_drives
            /\ _acknowledge_abuse' = _acknowledge_abuse]_vars

C10_Witness ==
    /\ pc = "constructed"
    /\ result.op = "size"
    /\ result.raised # "None"
    /\ client # NoClient
    /\ _support_team_drives = ConfiguredSharedDrives
    /\ _acknowledge_abuse = ConfiguredAcknowledgeAbuse

=============================================================================
